---- MODULE Spec2Model ----
(***************************************************************************)
(* Monte Carlo policy-cost simulation engine (src/src/parameters.py,       *)
(* src/src/simulation.py) and the command-line driver (src/main.py).       *)
(*                                                                         *)
(* Money is counted in integer units of 0.025 billion USD, so the shipped  *)
(* parameter table (0.7, 6.0, 10.0, 0.075, ...) is representable exactly.  *)
(* numpy's process-wide generator is a position in a fixed pseudo-random   *)
(* stream of standard-normal deviates: np.random.seed(s) jumps to a        *)
(* position determined by s, every value drawn advances it by one.         *)
(***************************************************************************)
EXTENDS Integers, Sequences, FiniteSets, TLC

VARIABLES
    POLICY_PARAMETERS,   \* module-level dict, in insertion order: <<[key, mean, std_dev]>>
    REVENUE_PARAMETERS,  \* module-level dict with the one key "tax_increases": [key, mean, std_dev]
    args,                \* --simulations and --threshold, handed to every constructor call
    rng,                 \* state of numpy's global generator
    simulators,          \* the MonteCarloSimulator objects constructed so far
    runs,                \* one record per run_simulation call, in call order
    sampled,             \* the last direct PolicyParameter.sample call and what it gave
    validated,           \* outcome of the last validate_parameters call
    sensitivity,         \* what the last run_sensitivity_analysis call returned
    estimate,            \* what the last get_total_policy_costs call returned
    custom,              \* the last run_custom_simulation call of the dashboard
    pc                   \* position of main()

vars == <<POLICY_PARAMETERS, REVENUE_PARAMETERS, args, rng,
          simulators, runs, sampled, validated, sensitivity, estimate,
          custom, pc>>

-----------------------------------------------------------------------------
(* Bounds of the model *)

MaxTrials == 2      \* largest num_simulations tried
MaxRuns   == 2      \* run_simulation calls per behaviour
RngPeriod == 7      \* length of the pseudo-random stream before it repeats

None == -1                  \* random_seed=None / seed=None (not a legal seed value)
NoResults == "NoResults"    \* run_simulation raised instead of returning
NoKey == "none"

\* config.DEFAULT_RANDOM_SEED
DEFAULT_RANDOM_SEED == 42

\* seeds handed to library calls: the default seed, and None
Seeds      == {DEFAULT_RANDOM_SEED}
TrialArgs  == (-1)..MaxTrials
Thresholds == {-1, 0, 6}

-----------------------------------------------------------------------------
(* Arithmetic helpers standing for numpy reductions *)

Max(a, b) == IF a >= b THEN a ELSE b

RECURSIVE SumSeq(_)
SumSeq(s) == IF s = <<>> THEN 0 ELSE Head(s) + SumSeq(Tail(s))

\* a float quotient a / b, kept as the exact fraction
Frac(a, b) == [num |-> a, den |-> b]

-----------------------------------------------------------------------------
(* numpy's global generator *)

RngStates == 0..(RngPeriod - 1)

\* the standard-normal deviate the generator yields in state g
StdNormal(g) == ((3 * g + 1) % 5) - 2

\* the state after drawing n values from state g
Advance(g, n) == (g + n) % RngPeriod

\* np.random.seed(s)
SeedState(s) == (3 * s + 2) % RngPeriod

-----------------------------------------------------------------------------
(* PolicyParameter.sample *)

\* variant: draws one value more than asked for
NormalOneExtra(mean, std_dev, size, g) ==
    [i \in 1..(size + 1) |-> mean + std_dev * StdNormal(Advance(g, i - 1))]

\* np.random.normal(mean, std_dev, size) from state g: loc + scale * deviate
Normal(mean, std_dev, size, g) ==
    [i \in 1..size |-> mean + std_dev * StdNormal(Advance(g, i - 1))]

\* variant: the clamp at zero left out
Maximum0NoClamp(samples) == samples

\* variant: the absolute value in place of the clamp
Maximum0Abs(samples) ==
    [i \in 1..Len(samples) |-> Max(samples[i], 0 - samples[i])]

\* np.maximum(samples, 0)
Maximum0(samples) == [i \in 1..Len(samples) |-> Max(samples[i], 0)]

\* variant: returns the normal draws themselves
SampleUnclamped(param, size, seed, g) ==
    LET g1 == IF seed # None THEN SeedState(seed) ELSE g
    IN  IF param.std_dev < 0 \/ size < 0
        THEN [raised |-> TRUE,  values |-> <<>>, rng |-> g1, drawn |-> 0]
        ELSE [raised |-> FALSE,
              values |-> Normal(param.mean, param.std_dev, size, g1),
              rng    |-> Advance(g1, size),
              drawn  |-> size]

\* variant: the seed argument is not applied
SampleNeverSeeds(param, size, seed, g) ==
    IF param.std_dev < 0 \/ size < 0
    THEN [raised |-> TRUE,  values |-> <<>>, rng |-> g, drawn |-> 0]
    ELSE [raised |-> FALSE,
          values |-> Maximum0(Normal(param.mean, param.std_dev, size, g)),
          rng    |-> Advance(g, size),
          drawn  |-> size]

\* sample(size, seed) called in generator state g.  np.random.normal raises
\* ValueError for a negative scale or a negative size, before drawing.
Sample(param, size, seed, g) ==
    LET g1 == IF seed # None THEN SeedState(seed) ELSE g
    IN  IF param.std_dev < 0 \/ size < 0
        THEN [raised |-> TRUE,  values |-> <<>>, rng |-> g1, drawn |-> 0]
        ELSE [raised |-> FALSE,
              values |-> Maximum0(Normal(param.mean, param.std_dev, size, g1)),
              rng    |-> Advance(g1, size),
              drawn  |-> size]

-----------------------------------------------------------------------------
(* get_total_policy_costs *)

\* variant: the standard deviations themselves added up
get_total_policy_costs_linear(policies) ==
    LET spread == SumSeq([c \in DOMAIN policies |-> policies[c].std_dev]) IN
    [mean_total    |-> SumSeq([c \in DOMAIN policies |-> policies[c].mean]),
     std_dev_total |-> [sqrt_of |-> spread * spread]]

\* (mean_total, std_dev_total); np.sqrt is kept as the number under the root
get_total_policy_costs(policies) ==
    LET variance_total ==
            SumSeq([c \in DOMAIN policies |->
                       policies[c].std_dev * policies[c].std_dev])
    IN  [mean_total    |-> SumSeq([c \in DOMAIN policies |-> policies[c].mean]),
         std_dev_total |-> [sqrt_of |-> variance_total]]

-----------------------------------------------------------------------------
(* validate_parameters *)

Keys(d) == {d[i].key : i \in DOMAIN d}

\* {**a, **b}: a's entries in a's order, values replaced by b's on a shared
\* key, followed by b's entries whose key a does not have
RECURSIVE NewEntries(_, _)
NewEntries(a, b) ==
    IF b = <<>> THEN <<>>
    ELSE IF Head(b).key \in Keys(a) THEN NewEntries(a, Tail(b))
         ELSE <<Head(b)>> \o NewEntries(a, Tail(b))

MergeDicts(a, b) ==
    [i \in DOMAIN a |->
        IF a[i].key \in Keys(b)
        THEN b[CHOOSE j \in DOMAIN b : b[j].key = a[i].key /\
                   \A k \in DOMAIN b : b[k].key = a[i].key => k <= j]
        ELSE a[i]] \o NewEntries(a, b)

\* variant: the std_dev test left out
RECURSIVE ValidateLoopMeanOnly(_, _)
ValidateLoopMeanOnly(entries, warnings) ==
    IF entries = <<>>
    THEN [raised |-> FALSE, key |-> NoKey, field |-> NoKey, warnings |-> warnings]
    ELSE LET param == Head(entries) IN
         IF param.mean < 0
         THEN [raised |-> TRUE, key |-> param.key, field |-> "mean",
               warnings |-> warnings]
         ELSE ValidateLoopMeanOnly(Tail(entries),
                 IF param.std_dev > param.mean
                 THEN Append(warnings, param.key) ELSE warnings)

\* variant: a spread above the mean raises instead of warning
RECURSIVE ValidateLoopWarnRaises(_, _)
ValidateLoopWarnRaises(entries, warnings) ==
    IF entries = <<>>
    THEN [raised |-> FALSE, key |-> NoKey, field |-> NoKey, warnings |-> warnings]
    ELSE LET param == Head(entries) IN
         IF param.mean < 0
         THEN [raised |-> TRUE, key |-> param.key, field |-> "mean",
               warnings |-> warnings]
         ELSE IF param.std_dev < 0 \/ param.std_dev > param.mean
         THEN [raised |-> TRUE, key |-> param.key, field |-> "std_dev",
               warnings |-> warnings]
         ELSE ValidateLoopWarnRaises(Tail(entries), warnings)

\* the loop of validate_parameters over the remaining entries: the first
\* offending entry raises ValueError, entries before it may print a warning
RECURSIVE ValidateLoop(_, _)
ValidateLoop(entries, warnings) ==
    IF entries = <<>>
    THEN [raised |-> FALSE, key |-> NoKey, field |-> NoKey, warnings |-> warnings]
    ELSE LET param == Head(entries) IN
         IF param.mean < 0
         THEN [raised |-> TRUE, key |-> param.key, field |-> "mean",
               warnings |-> warnings]
         ELSE IF param.std_dev < 0
         THEN [raised |-> TRUE, key |-> param.key, field |-> "std_dev",
               warnings |-> warnings]
         ELSE ValidateLoop(Tail(entries),
                 IF param.std_dev > param.mean
                 THEN Append(warnings, param.key) ELSE warnings)

\* variant: the revenue table left out of the merge
validate_policies_only(policies, revenue) ==
    ValidateLoop(policies, <<>>)

validate_parameters(policies, revenue) ==
    ValidateLoop(MergeDicts(policies, revenue), <<>>)

-----------------------------------------------------------------------------
(* MonteCarloSimulator *)

\* MonteCarloSimulator.__init__: the object it builds
Simulator(num_simulations, budget_threshold, random_seed) ==
    [num_simulations  |-> num_simulations,
     budget_threshold |-> budget_threshold,
     random_seed      |-> random_seed]

\* the sampling loop of run_simulation over the remaining policies, in dict
\* order; a sample call that raises ends the loop
\* variant: every policy draws from the state the run started in
RECURSIVE SamplePoliciesSameStart(_, _, _)
SamplePoliciesSameStart(policies, size, g) ==
    IF policies = <<>>
    THEN [raised |-> FALSE, columns |-> <<>>, rng |-> g, drawn |-> 0]
    ELSE LET s == Sample(Head(policies), size, None, g) IN
         IF s.raised
         THEN [raised |-> TRUE, columns |-> <<>>, rng |-> s.rng, drawn |-> 0]
         ELSE LET rest == SamplePoliciesSameStart(Tail(policies), size, g) IN
              [raised  |-> rest.raised,
               columns |-> <<[key |-> Head(policies).key, values |-> s.values]>>
                              \o rest.columns,
               rng     |-> Advance(rest.rng, s.drawn),
               drawn   |-> s.drawn + rest.drawn]

RECURSIVE SamplePolicies(_, _, _)
SamplePolicies(policies, size, g) ==
    IF policies = <<>>
    THEN [raised |-> FALSE, columns |-> <<>>, rng |-> g, drawn |-> 0]
    ELSE LET s == Sample(Head(policies), size, None, g) IN
         IF s.raised
         THEN [raised |-> TRUE, columns |-> <<>>, rng |-> s.rng, drawn |-> 0]
         ELSE LET rest == SamplePolicies(Tail(policies), size, s.rng) IN
              [raised  |-> rest.raised,
               columns |-> <<[key |-> Head(policies).key, values |-> s.values]>>
                              \o rest.columns,
               rng     |-> rest.rng,
               drawn   |-> s.drawn + rest.drawn]

\* variant: the last column left out of the sum
RowSumDropsColumn(columns, i) ==
    SumSeq([c \in 1..(Len(columns) - 1) |-> columns[c].values[i]])

\* policy_costs_df.sum(axis=1).values: one total per row of the table
RowSum(columns, i) == SumSeq([c \in DOMAIN columns |-> columns[c].values[i]])

\* variant: running totals, each row added to the rows before it
TotalCostsRunning(columns, size) ==
    [i \in 1..size |-> SumSeq([k \in 1..i |-> RowSum(columns, k)])]

TotalCosts(columns, size) == [i \in 1..size |-> RowSum(columns, i)]

\* variant: operands swapped
NetBudgetImpactSwapped(total_costs, revenues) ==
    [i \in DOMAIN total_costs |-> revenues[i] - total_costs[i]]

\* total_costs - revenues, element-wise
NetBudgetImpact(total_costs, revenues) ==
    [i \in DOMAIN total_costs |-> total_costs[i] - revenues[i]]

\* variant: >= in place of >
ThresholdExceedancesGeq(total_costs, budget_threshold) ==
    Cardinality({i \in DOMAIN total_costs : total_costs[i] >= budget_threshold})

\* np.sum(total_costs > budget_threshold)
ThresholdExceedances(total_costs, budget_threshold) ==
    Cardinality({i \in DOMAIN total_costs : total_costs[i] > budget_threshold})

Range(s) == {s[i] : i \in DOMAIN s}
SeqMin(s) == CHOOSE x \in Range(s) : \A y \in Range(s) : x <= y
SeqMax(s) == CHOOSE x \in Range(s) : \A y \in Range(s) : x >= y

\* float('nan'): what 0 / 0 gives
NaN == Frac(0, 0)

IsNaN(x) == x.num = 0 /\ x.den = 0

\* np.sqrt of a non-negative quotient, kept symbolic
Sqrt(x) == [sqrt_of |-> x]

\* data with x put after the entries that are <= x
RECURSIVE InsertSorted(_, _)
InsertSorted(sorted, x) ==
    IF sorted = <<>> THEN <<x>>
    ELSE IF x < Head(sorted) THEN <<x>> \o sorted
         ELSE <<Head(sorted)>> \o InsertSorted(Tail(sorted), x)

\* np.sort(data), ascending
RECURSIVE Sorted(_)
Sorted(data) ==
    IF data = <<>> THEN <<>>
    ELSE InsertSorted(Sorted(Tail(data)), Head(data))

\* np.mean(data)
Mean(data) == Frac(SumSeq(data), Len(data))

\* variant: the lower of the middle two, not their mean
MedianLowerMiddle(data) ==
    LET a == Sorted(data)
        n == Len(data)
    IN  Frac(a[(n + 1) \div 2], 1)

\* np.median(data): the middle element, or the mean of the middle two
Median(data) ==
    LET a == Sorted(data)
        n == Len(data)
    IN  IF n % 2 = 1 THEN Frac(a[(n + 1) \div 2], 1)
        ELSE Frac(a[n \div 2] + a[n \div 2 + 1], 2)

\* sum over i of (n * data[i] - sum(data))^2, that is n^2 * sum (x - mean)^2
SquaredDeviations(data) ==
    LET n == Len(data)
        total == SumSeq(data)
    IN  SumSeq([i \in DOMAIN data |->
                   (n * data[i] - total) * (n * data[i] - total)])

\* np.var(data, ddof): sum (x - mean)^2 / (n - ddof)
Variance(data, ddof) ==
    LET n == Len(data)
    IN  Frac(SquaredDeviations(data), n * n * (n - ddof))

\* np.std(data): ddof = 0
Std(data) == Sqrt(Variance(data, 0))

\* variant: the data taken in trial order, not sorted
PercentileUnsorted(data, p) ==
    LET n   == Len(data)
        pos == (n - 1) * p
        lo  == pos \div 100 + 1
        hi  == IF lo < n THEN lo + 1 ELSE n
    IN  Frac(100 * data[lo] + (pos % 100) * (data[hi] - data[lo]), 100)

\* np.percentile(data, p), linear interpolation between the two order
\* statistics around position (n - 1) * p / 100
Percentile(data, p) ==
    LET a   == Sorted(data)
        n   == Len(data)
        pos == (n - 1) * p
        lo  == pos \div 100 + 1
        hi  == IF lo < n THEN lo + 1 ELSE n
    IN  Frac(100 * a[lo] + (pos % 100) * (a[hi] - a[lo]), 100)

\* config.PERCENTILES
PERCENTILES == <<5, 25, 50, 75, 95>>

\* config.CONFIDENCE_LEVEL, in percent
CONFIDENCE_LEVEL == 95

\* the dict comprehension {p: np.percentile(data, p) for p in PERCENTILES}
Percentiles(data) == [p \in Range(PERCENTILES) |-> Percentile(data, p)]

\* mean, median, std, min and max of one vector: the "revenues" block of
\* _calculate_statistics
Summary(data) ==
    [mean   |-> Mean(data),
     median |-> Median(data),
     std    |-> Std(data),
     min    |-> SeqMin(data),
     max    |-> SeqMax(data)]

\* variant: the percentiles entry left out
SummaryNoPercentiles(data) == Summary(data)

\* the "total_costs" and "net_budget_impact" blocks: the same with percentiles
SummaryWithPercentiles(data) ==
    [mean        |-> Mean(data),
     median      |-> Median(data),
     std         |-> Std(data),
     min         |-> SeqMin(data),
     max         |-> SeqMax(data),
     percentiles |-> Percentiles(data)]

\* one end of stats.t.interval(CONFIDENCE_LEVEL, df, loc, scale): nan when
\* df <= 0 or the scale is nan or not positive, else loc -/+ t(df) * scale
NaNBound == [nan |-> TRUE, loc |-> NaN, df |-> 0, scale |-> Sqrt(NaN),
             level |-> CONFIDENCE_LEVEL]

TBound(df, loc, scale2) ==
    IF df <= 0 \/ scale2.den = 0 \/ scale2.num = 0
    THEN NaNBound
    ELSE [nan |-> FALSE, loc |-> loc, df |-> df, scale |-> Sqrt(scale2),
          level |-> CONFIDENCE_LEVEL]

\* ci(data) of _calculate_confidence_intervals: stats.sem is
\* sqrt(var(ddof=1) / n); lower and upper share the bound's parameters
ConfidenceInterval(data) ==
    LET n    == Len(data)
        sem2 == Frac(SquaredDeviations(data), n * n * (n - 1) * n)
        b    == TBound(n - 1, Mean(data), sem2)
    IN  [lower |-> b, upper |-> b]

\* _calculate_confidence_intervals
CalculateConfidenceIntervals(total_costs, revenues, net_budget_impact) ==
    [total_costs       |-> ConfidenceInterval(total_costs),
     revenues          |-> ConfidenceInterval(revenues),
     net_budget_impact |-> ConfidenceInterval(net_budget_impact)]

\* "policy_statistics": pandas mean, std (ddof = 1) and median per column
PolicyStatistics(policy_costs) ==
    [c \in DOMAIN policy_costs |->
        [key    |-> policy_costs[c].key,
         mean   |-> Mean(policy_costs[c].values),
         std    |-> Sqrt(Variance(policy_costs[c].values, 1)),
         median |-> Median(policy_costs[c].values)]]

\* variant: the percentage stored as the probability
ThresholdAnalysisPercent(threshold_exceedances, num_simulations) ==
    [exceedances |-> threshold_exceedances,
     probability |-> Frac(100 * threshold_exceedances, num_simulations),
     percentage  |-> Frac(100 * threshold_exceedances, num_simulations)]

\* "threshold_analysis" of _calculate_statistics
ThresholdAnalysis(threshold_exceedances, num_simulations) ==
    [exceedances |-> threshold_exceedances,
     probability |-> Frac(threshold_exceedances, num_simulations),
     percentage  |-> Frac(100 * threshold_exceedances, num_simulations)]

\* _calculate_statistics; np.min of an empty vector raises ValueError
StatisticsRaises(total_costs) == Len(total_costs) = 0

CalculateStatistics(self, policy_costs, total_costs, revenues, net_budget_impact, threshold_exceedances) ==
    [num_simulations      |-> self.num_simulations,
     budget_threshold     |-> self.budget_threshold,
     total_costs          |-> SummaryWithPercentiles(total_costs),
     revenues             |-> Summary(revenues),
     net_budget_impact    |-> SummaryWithPercentiles(net_budget_impact),
     threshold_analysis   |-> ThresholdAnalysis(threshold_exceedances,
                                                self.num_simulations),
     confidence_intervals |-> CalculateConfidenceIntervals(total_costs,
                                  revenues, net_budget_impact),
     policy_statistics    |-> PolicyStatistics(policy_costs)]

Raised(g, n) == [raised |-> TRUE, results |-> NoResults, rng |-> g, drawn |-> n]

\* run_simulation of simulator self, on the given tables, from generator
\* state g: the SimulationResults it returns, or the exception
run_simulation(self, policies, revenue, g) ==
    LET size == self.num_simulations
        pol  == SamplePolicies(policies, size, g)
    IN  IF pol.raised THEN Raised(pol.rng, pol.drawn)
        ELSE
        LET rev == Sample(revenue[1], size, None, pol.rng) IN
        IF rev.raised THEN Raised(rev.rng, pol.drawn)
        ELSE
        LET total_costs == TotalCosts(pol.columns, size)
            net_budget_impact == NetBudgetImpact(total_costs, rev.values)
            threshold_exceedances ==
                ThresholdExceedances(total_costs, self.budget_threshold)
        IN  IF StatisticsRaises(total_costs)
            THEN Raised(rev.rng, pol.drawn + rev.drawn)
            ELSE [raised  |-> FALSE,
                  results |->
                    [policy_costs          |-> pol.columns,
                     total_costs           |-> total_costs,
                     revenues              |-> rev.values,
                     net_budget_impact     |-> net_budget_impact,
                     threshold_exceedances |-> threshold_exceedances,
                     statistics            |->
                        CalculateStatistics(self, pol.columns, total_costs,
                            rev.values, net_budget_impact,
                            threshold_exceedances)],
                  rng   |-> rev.rng,
                  drawn |-> pol.drawn + rev.drawn]

-----------------------------------------------------------------------------
(* run_sensitivity_analysis *)

\* x / y on floats: x / 0 is inf and 0 / 0 is nan, with a warning only
DivideSwapped(x, y) ==
    IF x.den = y.den THEN Frac(y.num, x.num)
    ELSE Frac(y.num * x.den, y.den * x.num)

Divide(x, y) ==
    IF x.den = y.den THEN Frac(x.num, y.num)
    ELSE Frac(x.num * y.den, x.den * y.num)

\* k * x
Times(k, x) == Frac(k * x.num, x.den)

\* x < y on floats that are not negative: False when either is nan, and
\* inf is below nothing
Less(x, y) ==
    IF IsNaN(x) \/ IsNaN(y) \/ x.den = 0 THEN FALSE
    ELSE IF y.den = 0 THEN TRUE
    ELSE IF x.den = y.den THEN x.num < y.num
    ELSE x.num * y.den < y.num * x.den

\* the dict filled by the loop, in column order
SensitivitySampleVariance(results) ==
    LET base_variance == Variance(results.total_costs, 0) IN
    [c \in DOMAIN results.policy_costs |->
        LET policy_variance == Variance(results.policy_costs[c].values, 1)
            contribution    == Divide(policy_variance, base_variance)
        IN  [key                   |-> results.policy_costs[c].key,
             variance              |-> policy_variance,
             contribution_to_total |-> contribution,
             percentage            |-> Times(100, contribution)]]

Sensitivity(results) ==
    LET base_variance == Variance(results.total_costs, 0) IN
    [c \in DOMAIN results.policy_costs |->
        LET policy_variance == Variance(results.policy_costs[c].values, 0)
            contribution    == Divide(policy_variance, base_variance)
        IN  [key                   |-> results.policy_costs[c].key,
             variance              |-> policy_variance,
             contribution_to_total |-> contribution,
             percentage            |-> Times(100, contribution)]]

\* sorted(..., reverse=True) is stable: an item goes in front of the first
\* item that compares below it, and behind every item that does not
RECURSIVE InsertDescending(_, _)
InsertDescending(sorted, item) ==
    IF sorted = <<>> THEN <<item>>
    ELSE IF Less(Head(sorted).contribution_to_total, item.contribution_to_total)
         THEN <<item>> \o sorted
         ELSE <<Head(sorted)>> \o InsertDescending(Tail(sorted), item)

RECURSIVE SortUpTo(_, _)
SortUpTo(items, k) ==
    IF k = 0 THEN <<>> ELSE InsertDescending(SortUpTo(items, k - 1), items[k])

InsertionOrder(items) == items

SortByContribution(items) == SortUpTo(items, Len(items))

run_sensitivity_analysis(results) == SortByContribution(Sensitivity(results))

-----------------------------------------------------------------------------
(* Configurations tried *)

P(key, mean, std_dev) == [key |-> key, mean |-> mean, std_dev |-> std_dev]

Policies(fb, uc, ah, gg) ==
    <<P("free_buses", fb[1], fb[2]), P("universal_childcare", uc[1], uc[2]),
      P("affordable_housing", ah[1], ah[2]),
      P("government_grocery_stores", gg[1], gg[2])>>

Revenue(tx) == <<P("tax_increases", tx[1], tx[2])>>

Config(policies, revenue) == [policies |-> policies, revenue |-> revenue]

\* the shipped tables: 0.7+-0.1, 6.0+-1.0, 10.0+-1.5, 0.075+-0.025; 10.0+-1.5
ShippedConfig ==
    Config(Policies(<<28, 4>>, <<240, 40>>, <<400, 60>>, <<3, 1>>),
           Revenue(<<400, 60>>))

Configs ==
    { ShippedConfig,
      \* no spread at all: every trial costs 1 + 2 + 3 + 0
      Config(Policies(<<1, 0>>, <<2, 0>>, <<3, 0>>, <<0, 0>>), Revenue(<<5, 0>>)),
      \* spread above the mean: draws fall below zero and are clamped
      Config(Policies(<<1, 2>>, <<0, 1>>, <<2, 3>>, <<1, 1>>), Revenue(<<3, 2>>)),
      \* revenue far above cost
      Config(Policies(<<0, 1>>, <<0, 0>>, <<1, 1>>, <<0, 2>>), Revenue(<<9, 1>>)),
      \* invalid tables
      Config(Policies(<<1, 1>>, <<-1, 1>>, <<2, 1>>, <<1, 0>>), Revenue(<<3, 1>>)),
      Config(Policies(<<1, 1>>, <<2, 1>>, <<2, -1>>, <<1, 0>>), Revenue(<<3, 1>>)),
      Config(Policies(<<1, 1>>, <<2, 1>>, <<2, 1>>, <<1, 0>>), Revenue(<<3, -1>>)),
      Config(Policies(<<1, 1>>, <<2, 1>>, <<2, 1>>, <<1, 0>>), Revenue(<<-2, 1>>)),
      Config(Policies(<<-1, -1>>, <<2, 3>>, <<2, 1>>, <<1, -2>>), Revenue(<<3, 1>>)) }

-----------------------------------------------------------------------------
(* The dashboard: run_custom_simulation *)

CustomRaised(g) == [raised |-> TRUE, results |-> NoResults, rng |-> g]

\* variant: the revenue is drawn before the policies
run_custom_simulation_revenue_first(num_sims, threshold, fb_mean, fb_std, cc_mean, cc_std, ah_mean, ah_std, gs_mean, gs_std, rev_mean, rev_std, g) ==
    LET custom_policies == Policies(<<fb_mean, fb_std>>, <<cc_mean, cc_std>>,
                                    <<ah_mean, ah_std>>, <<gs_mean, gs_std>>)
        custom_revenue == Revenue(<<rev_mean, rev_std>>)
        rev == Sample(custom_revenue[1], num_sims, None, g)
        pol == SamplePolicies(custom_policies, num_sims, rev.rng)
    IN  IF rev.raised THEN CustomRaised(rev.rng)
        ELSE IF pol.raised THEN CustomRaised(pol.rng)
        ELSE
        LET total_costs == TotalCosts(pol.columns, num_sims) IN
        [raised  |-> FALSE,
         results |->
            [policy_costs      |-> pol.columns,
             total_costs       |-> total_costs,
             revenues          |-> rev.values,
             net_budget_impact |-> NetBudgetImpact(total_costs, rev.values),
             threshold         |-> threshold,
             exceedances       |-> ThresholdExceedances(total_costs, threshold),
             num_sims          |-> num_sims],
         rng |-> pol.rng]

\* run_custom_simulation(...) called in generator state g: the dict it
\* returns, or the exception of a sample call
run_custom_simulation(num_sims, threshold, fb_mean, fb_std, cc_mean, cc_std, ah_mean, ah_std, gs_mean, gs_std, rev_mean, rev_std, g) ==
    LET custom_policies == Policies(<<fb_mean, fb_std>>, <<cc_mean, cc_std>>,
                                    <<ah_mean, ah_std>>, <<gs_mean, gs_std>>)
        custom_revenue == Revenue(<<rev_mean, rev_std>>)
        pol == SamplePolicies(custom_policies, num_sims, g)
        rev == Sample(custom_revenue[1], num_sims, None, pol.rng)
    IN  IF pol.raised THEN CustomRaised(pol.rng)
        ELSE IF rev.raised THEN CustomRaised(rev.rng)
        ELSE
        LET total_costs == TotalCosts(pol.columns, num_sims) IN
        [raised  |-> FALSE,
         results |->
            [policy_costs      |-> pol.columns,
             total_costs       |-> total_costs,
             revenues          |-> rev.values,
             net_budget_impact |-> NetBudgetImpact(total_costs, rev.values),
             threshold         |-> threshold,
             exceedances       |-> ThresholdExceedances(total_costs, threshold),
             num_sims          |-> num_sims],
         rng |-> rev.rng]

-----------------------------------------------------------------------------
(* The state machine *)

NoSamples == [called |-> FALSE]
NotCalled == [called |-> FALSE]
Called(outcome) == [called |-> TRUE, outcome |-> outcome]

Init ==
    /\ \E c \in Configs :
          /\ POLICY_PARAMETERS = c.policies
          /\ REVENUE_PARAMETERS = c.revenue
    /\ args \in [simulations : TrialArgs, threshold : Thresholds]
    /\ rng \in RngStates
    /\ simulators = {}
    /\ runs = <<>>
    /\ sampled = NoSamples
    /\ validated = NotCalled
    /\ sensitivity = NotCalled
    /\ estimate = NotCalled
    /\ custom = NotCalled
    /\ pc = "start"

Tables == <<POLICY_PARAMETERS, REVENUE_PARAMETERS, args>>

\* what only the cost overview and the dashboard write
Other == <<estimate, custom>>

\* validate_parameters()
ValidateCall ==
    /\ validated' = Called(validate_parameters(POLICY_PARAMETERS, REVENUE_PARAMETERS))
    /\ UNCHANGED <<Tables, rng, simulators, runs, sampled, sensitivity, Other>>

\* MonteCarloSimulator(args.simulations, args.threshold, seed)
ConstructCall(seed) ==
    /\ simulators' = simulators \cup
           {Simulator(args.simulations, args.threshold, seed)}
    /\ rng' = IF seed # None THEN SeedState(seed) ELSE rng
    /\ UNCHANGED <<Tables, runs, sampled, validated, sensitivity, Other>>

\* variant: the run uses up the seed of its simulator
RunCallDropsSeed(self) ==
    /\ Len(runs) < MaxRuns
    /\ LET r == run_simulation(self, POLICY_PARAMETERS, REVENUE_PARAMETERS, rng)
       IN  /\ runs' = Append(runs, [simulator |-> self, before |-> rng,
                                    raised |-> r.raised, drawn |-> r.drawn,
                                    results |-> r.results])
           /\ rng' = r.rng
    /\ simulators' = (simulators \ {self}) \cup
           {Simulator(self.num_simulations, self.budget_threshold, None)}
    /\ UNCHANGED <<Tables, sampled, validated, sensitivity, Other>>

\* variant: the run starts by seeding the generator with its simulator's seed
RunCallReseeds(self) ==
    /\ Len(runs) < MaxRuns
    /\ LET g == IF self.random_seed # None THEN SeedState(self.random_seed)
                ELSE rng
           r == run_simulation(self, POLICY_PARAMETERS, REVENUE_PARAMETERS, g)
       IN  /\ runs' = Append(runs, [simulator |-> self, before |-> g,
                                    raised |-> r.raised, drawn |-> r.drawn,
                                    results |-> r.results])
           /\ rng' = r.rng
    /\ UNCHANGED <<Tables, simulators, sampled, validated, sensitivity, Other>>

\* self.run_simulation()
RunCall(self) ==
    /\ Len(runs) < MaxRuns
    /\ LET r == run_simulation(self, POLICY_PARAMETERS, REVENUE_PARAMETERS, rng)
       IN  /\ runs' = Append(runs, [simulator |-> self, before |-> rng,
                                    raised |-> r.raised, drawn |-> r.drawn,
                                    results |-> r.results])
           /\ rng' = r.rng
    /\ UNCHANGED <<Tables, simulators, sampled, validated, sensitivity, Other>>

\* variant: the analysis sorts the total costs it was handed, in place
SensitivityCallSortsTotals(r) ==
    /\ sensitivity' = [called |-> TRUE, run |-> r,
                       entries |-> run_sensitivity_analysis(runs[r].results)]
    /\ runs' = [runs EXCEPT ![r].results.total_costs = Sorted(@)]
    /\ UNCHANGED <<Tables, rng, simulators, sampled, validated, Other>>

\* run_sensitivity_analysis(simulator, results) on the results of run r
SensitivityCall(r) ==
    /\ sensitivity' = [called |-> TRUE, run |-> r,
                       entries |-> run_sensitivity_analysis(runs[r].results)]
    /\ UNCHANGED <<Tables, rng, simulators, runs, sampled, validated, Other>>

-----------------------------------------------------------------------------
(* The engine used as a library: calls in any order *)

ValidateParameters == ValidateCall /\ UNCHANGED pc

Construct(seed) == ConstructCall(seed) /\ UNCHANGED pc

RunSimulation(self) == RunCall(self) /\ UNCHANGED pc

Next ==
    \/ ValidateParameters
    \/ \E seed \in Seeds \cup {None} : Construct(seed)
    \/ \E self \in simulators : RunSimulation(self)

Spec == Init /\ [][Next]_vars

-----------------------------------------------------------------------------
(* Results and what is done with them: further runs, and the analysis of any
   result returned so far (print_summary only prints) *)

RunSensitivityAnalysis(r) == SensitivityCall(r) /\ UNCHANGED pc

NextResults ==
    \/ \E seed \in Seeds \cup {None} : Construct(seed)
    \/ \E self \in simulators : RunSimulation(self)
    \/ \E r \in {q \in DOMAIN runs : ~runs[q].raised} : RunSensitivityAnalysis(r)

SpecResults == Init /\ [][NextResults]_vars

-----------------------------------------------------------------------------
(* Direct calls into parameters.py: sample on the entries of the tables, and
   the cost overview *)

\* param.sample(size, seed)
SampleCall(param, size, seed) ==
    /\ LET s == Sample(param, size, seed, rng)
       IN  /\ sampled' = [called |-> TRUE, param |-> param, size |-> size,
                          seed |-> seed, before |-> rng, raised |-> s.raised,
                          values |-> s.values]
           /\ rng' = s.rng
    /\ UNCHANGED <<Tables, simulators, runs, validated, sensitivity, Other, pc>>

\* get_total_policy_costs()
GetTotalPolicyCosts ==
    /\ estimate' = Called(get_total_policy_costs(POLICY_PARAMETERS))
    /\ UNCHANGED <<Tables, rng, simulators, runs, sampled, validated,
                   sensitivity, custom, pc>>

InitSample ==
    /\ Init
    /\ args = [simulations |-> 1, threshold |-> 0]

NextSample ==
    \/ \E param \in Range(POLICY_PARAMETERS) \cup Range(REVENUE_PARAMETERS),
          size \in TrialArgs, seed \in Seeds \cup {None} :
            SampleCall(param, size, seed)
    \/ GetTotalPolicyCosts

SpecSample == InitSample /\ [][NextSample]_vars

-----------------------------------------------------------------------------
(* The dashboard: one simulation per press of the button, each with the
   values of the sidebar *)

\* run_custom_simulation(num_sims, threshold, the means and spreads of c)
RunCustomSimulation(num_sims, threshold, c) ==
    /\ LET p == c.policies
           v == c.revenue[1]
           r == run_custom_simulation(num_sims, threshold,
                    p[1].mean, p[1].std_dev, p[2].mean, p[2].std_dev,
                    p[3].mean, p[3].std_dev, p[4].mean, p[4].std_dev,
                    v.mean, v.std_dev, rng)
       IN  /\ custom' = [called |-> TRUE, num_sims |-> num_sims,
                         threshold |-> threshold, config |-> c,
                         before |-> rng, raised |-> r.raised,
                         results |-> r.results]
           /\ rng' = r.rng
    /\ UNCHANGED <<Tables, simulators, runs, sampled, validated, sensitivity,
                   estimate, pc>>

NextApp ==
    \E num_sims \in TrialArgs, threshold \in Thresholds, c \in Configs :
        RunCustomSimulation(num_sims, threshold, c)

\* the dashboard imports the shipped tables and leaves them alone
InitApp ==
    /\ InitSample
    /\ POLICY_PARAMETERS = ShippedConfig.policies
    /\ REVENUE_PARAMETERS = ShippedConfig.revenue

SpecApp == InitApp /\ [][NextApp]_vars

-----------------------------------------------------------------------------
(* main(): validate, construct, run, analyse; sys.exit(1) on ValueError *)

\* --seed takes any int: every state of the generator can be seeded
CliSeeds == 0..(RngPeriod - 1)

MainValidate ==
    /\ pc = "start"
    /\ ValidateCall
    /\ pc' = IF validated'.outcome.raised THEN "exit1" ELSE "validated"

\* --seed is an int (default 42), never None
MainConstruct ==
    /\ pc = "validated"
    /\ \E seed \in CliSeeds : ConstructCall(seed)
    /\ pc' = "constructed"

MainRun ==
    /\ pc = "constructed"
    /\ \E simulator \in simulators : RunCall(simulator)
    /\ pc' = IF runs'[Len(runs')].raised THEN "exit1" ELSE "ran"

\* print_summary only prints; the analysis is handed the results of the run
MainSensitivity ==
    /\ pc = "ran"
    /\ SensitivityCall(Len(runs))
    /\ pc' = "analysed"

NextMain == MainValidate \/ MainConstruct \/ MainRun \/ MainSensitivity

SpecMain == Init /\ [][NextMain]_vars

TypeOK ==
    /\ rng \in RngStates
    /\ Len(runs) <= MaxRuns

-----------------------------------------------------------------------------
(* Properties *)

\* the run_simulation calls that returned a SimulationResults
Returned == {r \in DOMAIN runs : ~runs[r].raised}

\* the sum of the first k columns of a cost table at row i
RECURSIVE ColumnsUpTo(_, _, _)
ColumnsUpTo(table, i, k) ==
    IF k = 0 THEN 0 ELSE ColumnsUpTo(table, i, k - 1) + table[k].values[i]

\* C1: in every result, total_costs[i] is the sum of row i over all policy
\* columns: one column per configured policy, each counted once, revenue
\* not included.
C1_TotalIsRowSum ==
    \A r \in Returned :
        LET res == runs[r].results IN
        /\ Len(res.policy_costs) = Len(POLICY_PARAMETERS)
        /\ \A c \in DOMAIN res.policy_costs :
              res.policy_costs[c].key = POLICY_PARAMETERS[c].key
        /\ \A i \in DOMAIN res.total_costs :
              res.total_costs[i] =
                  ColumnsUpTo(res.policy_costs, i, Len(res.policy_costs))

\* a returned row in which every column and the revenue are positive
C1_Witness ==
    \E r \in Returned :
        LET res == runs[r].results IN
        \E i \in DOMAIN res.total_costs :
            /\ \A c \in DOMAIN res.policy_costs : res.policy_costs[c].values[i] > 0
            /\ res.revenues[i] > 0

\* C2: in every result, net_budget_impact[i] = total_costs[i] - revenues[i]
\* on the same row i; positive is a deficit, negative a surplus.
C2_NetIsTotalMinusRevenue ==
    \A r \in Returned :
        LET res == runs[r].results IN
        /\ DOMAIN res.net_budget_impact = DOMAIN res.total_costs
        /\ \A i \in DOMAIN res.net_budget_impact :
              res.net_budget_impact[i] + res.revenues[i] = res.total_costs[i]

\* a returned result with two rows whose totals differ and whose revenues
\* differ, one row in deficit
C2_Witness ==
    \E r \in Returned :
        LET res == runs[r].results IN
        \E i, j \in DOMAIN res.net_budget_impact :
            /\ res.total_costs[i] # res.total_costs[j]
            /\ res.revenues[i] # res.revenues[j]
            /\ res.net_budget_impact[i] > 0

\* the number of the first k trials whose total is strictly above the limit
RECURSIVE StrictlyAbove(_, _, _)
StrictlyAbove(total_costs, limit, k) ==
    IF k = 0 THEN 0
    ELSE StrictlyAbove(total_costs, limit, k - 1)
             + (IF total_costs[k] - limit >= 1 THEN 1 ELSE 0)

\* C3: the exceedance count is the number of trials whose total cost is
\* strictly greater than the threshold; a total equal to the threshold is
\* not counted.
C3_ExceedancesStrict ==
    \A r \in Returned :
        LET res == runs[r].results IN
        res.threshold_exceedances =
            StrictlyAbove(res.total_costs, runs[r].simulator.budget_threshold,
                          Len(res.total_costs))

\* a returned result with one total equal to the threshold and one above it
C3_Witness ==
    \E r \in Returned :
        LET res == runs[r].results IN
        \E i, j \in DOMAIN res.total_costs :
            /\ res.total_costs[i] = runs[r].simulator.budget_threshold
            /\ res.total_costs[j] > runs[r].simulator.budget_threshold
            /\ res.threshold_exceedances = 1

\* C4: the reported probability is exceedance count / trial count and lies
\* in [0, 1]: 0 <= exceedance count <= trial count.
C4_ProbabilityInUnitInterval ==
    \A r \in Returned :
        LET res == runs[r].results
            ta  == res.statistics.threshold_analysis
        IN  /\ ta.exceedances = res.threshold_exceedances
            /\ ta.probability.num = res.threshold_exceedances
            /\ ta.probability.den = runs[r].simulator.num_simulations
            /\ ta.probability.den > 0
            /\ 0 <= ta.probability.num
            /\ ta.probability.num <= ta.probability.den

\* a returned result whose probability is strictly between 0 and 1
C4_Witness ==
    \E r \in Returned :
        LET p == runs[r].results.statistics.threshold_analysis.probability
        IN  0 < p.num /\ p.num < p.den

\* C5: for a parameter with mean >= 0 and std_dev >= 0 and a count N >= 0,
\* sample(N) returns exactly N values, each >= 0, seeded or not.
C5_SampleCountAndSign ==
    (/\ sampled.called
     /\ sampled.param.mean >= 0
     /\ sampled.param.std_dev >= 0
     /\ sampled.size >= 0)
    => /\ ~sampled.raised
       /\ Len(sampled.values) = sampled.size
       /\ \A i \in DOMAIN sampled.values : sampled.values[i] >= 0

\* an unseeded and a seeded call, each on a valid parameter, in which a
\* normal draw fell below zero
DrewNegative ==
    /\ sampled.called
    /\ sampled.param.mean >= 0
    /\ sampled.param.std_dev >= 0
    /\ sampled.size >= 2
    /\ ~sampled.raised
    /\ LET g == IF sampled.seed # None THEN SeedState(sampled.seed)
                ELSE sampled.before
       IN  \E i \in 1..sampled.size :
              sampled.param.mean
                + sampled.param.std_dev * StdNormal(Advance(g, i - 1)) < 0

C5_Witness == DrewNegative /\ sampled.seed # None

\* C6: in every result the cost table has trial-count rows and the
\* total-cost, revenue and net-impact vectors have trial-count elements.
C6_RowCounts ==
    \A r \in Returned :
        LET res == runs[r].results
            n   == runs[r].simulator.num_simulations
        IN  /\ \A c \in DOMAIN res.policy_costs :
                  Len(res.policy_costs[c].values) = n
            /\ Len(res.total_costs) = n
            /\ Len(res.revenues) = n
            /\ Len(res.net_budget_impact) = n

\* a returned result of a run with at least two trials
C6_Witness ==
    \E r \in Returned :
        /\ runs[r].simulator.num_simulations >= 2
        /\ Len(runs[r].results.policy_costs) = 4

\* C7: in every result every per-policy cost, total cost and revenue is
\* >= 0; net impact has either sign and is negative exactly when revenue
\* exceeds total cost in that trial.
C7_NonNegativeCosts ==
    \A r \in Returned :
        LET res == runs[r].results IN
        /\ \A c \in DOMAIN res.policy_costs :
              \A i \in DOMAIN res.policy_costs[c].values :
                  res.policy_costs[c].values[i] >= 0
        /\ \A i \in DOMAIN res.total_costs : res.total_costs[i] >= 0
        /\ \A i \in DOMAIN res.revenues : res.revenues[i] >= 0
        /\ \A i \in DOMAIN res.net_budget_impact :
              (res.net_budget_impact[i] < 0)
                  <=> (res.revenues[i] > res.total_costs[i])

\* a returned result with a surplus trial, a deficit trial and a cost
\* clamped to zero
C7_Witness ==
    \E r \in Returned :
        LET res == runs[r].results IN
        /\ \E i \in DOMAIN res.net_budget_impact : res.net_budget_impact[i] < 0
        /\ \E i \in DOMAIN res.net_budget_impact : res.net_budget_impact[i] > 0
        /\ \E c \in DOMAIN res.policy_costs :
              /\ POLICY_PARAMETERS[c].mean > 0
              /\ POLICY_PARAMETERS[c].std_dev > 0
              /\ \E i \in DOMAIN res.policy_costs[c].values :
                    res.policy_costs[c].values[i] = 0

\* C8: two runs with the same seed (not None) and the same configuration
\* return identical cost tables, revenue vectors and statistics.
C8_SeededRunsIdentical ==
    \A r1, r2 \in Returned :
        (/\ runs[r1].simulator = runs[r2].simulator
         /\ runs[r1].simulator.random_seed # None)
        => /\ runs[r1].results.policy_costs = runs[r2].results.policy_costs
           /\ runs[r1].results.revenues = runs[r2].results.revenues
           /\ runs[r1].results.statistics = runs[r2].results.statistics

Invalid(param) == param.mean < 0 \/ param.std_dev < 0

Parameters == Range(POLICY_PARAMETERS) \cup Range(REVENUE_PARAMETERS)

\* C9: validate_parameters raises exactly when some policy or revenue
\* parameter has a negative mean or std_dev, the error names such a
\* parameter and its negative field, and it returns True otherwise.
C9_ValidateRaisesIffInvalid ==
    validated.called =>
        LET v == validated.outcome IN
        /\ v.raised <=> (\E param \in Parameters : Invalid(param))
        /\ v.raised =>
              \E param \in Parameters :
                  /\ param.key = v.key
                  /\ \/ v.field = "mean" /\ param.mean < 0
                     \/ v.field = "std_dev" /\ param.std_dev < 0
        /\ ~v.raised => v.key = NoKey

\* validation raised on a table whose only fault is the revenue std_dev
C9_Witness ==
    /\ validated.called
    /\ validated.outcome.raised
    /\ validated.outcome.key = "tax_increases"
    /\ validated.outcome.field = "std_dev"
    /\ \A param \in Range(POLICY_PARAMETERS) : ~Invalid(param)

\* C10: main() never starts a run on a table with an invalid parameter:
\* the error is raised before any sample is drawn, and a run either drew
\* nothing or returned a full result.
C10_NoRunOnInvalidConfig ==
    /\ (\E param \in Parameters : Invalid(param)) =>
          /\ runs = <<>>
          /\ simulators = {}
          /\ pc \in {"start", "exit1"}
    /\ \A r \in DOMAIN runs :
          \/ runs[r].raised /\ runs[r].drawn = 0
          \/ /\ ~runs[r].raised
             /\ runs[r].drawn = (Len(POLICY_PARAMETERS) + 1)
                                    * runs[r].simulator.num_simulations
             /\ \A c \in DOMAIN runs[r].results.policy_costs :
                   Len(runs[r].results.policy_costs[c].values)
                       = runs[r].simulator.num_simulations

\* main() stopped at validation on a table with a negative std_dev, the
\* generator untouched
C10_Witness ==
    /\ pc = "exit1"
    /\ validated.called
    /\ validated.outcome.raised
    /\ validated.outcome.field = "std_dev"
    /\ runs = <<>>

\* C11: a parameter whose std_dev exceeds its mean (both non-negative)
\* makes validate_parameters print a warning for it and still return True,
\* and main() goes on to the run.
C11_WarningDoesNotFail ==
    (/\ validated.called
     /\ \A param \in Parameters : ~Invalid(param))
    => /\ ~validated.outcome.raised
       /\ Range(validated.outcome.warnings) =
              {param.key : param \in
                  {q \in Parameters : q.std_dev > q.mean}}
       /\ pc = "exit1" => runs # <<>>

\* main() returned from its run on a table for which warnings were printed
C11_Witness ==
    /\ pc = "ran"
    /\ validated.called
    /\ Len(validated.outcome.warnings) >= 2
    /\ \E r \in Returned : runs[r].simulator.num_simulations >= 2

FiveNumbers == {"mean", "median", "std", "min", "max"}

\* C12 as stated: each of the total_costs, revenues and net_budget_impact
\* blocks of the statistics holds mean, median, std, min, max and a value
\* for every percentile of PERCENTILES.
C12_AllBlocksHavePercentiles ==
    \A r \in Returned :
        LET st == runs[r].results.statistics IN
        \A block \in {st.total_costs, st.revenues, st.net_budget_impact} :
            /\ FiveNumbers \subseteq DOMAIN block
            /\ "percentiles" \in DOMAIN block
            /\ DOMAIN block.percentiles = {5, 25, 50, 75, 95}

\* C12 amended: the total_costs and net_budget_impact blocks hold mean,
\* median, std, min, max and a value for every percentile of PERCENTILES
\* (5, 25, 50, 75, 95); the revenues block holds mean, median, std, min and
\* max only.
C12_StatisticsBlocks ==
    \A r \in Returned :
        LET st == runs[r].results.statistics IN
        /\ \A block \in {st.total_costs, st.net_budget_impact} :
              /\ DOMAIN block = FiveNumbers \cup {"percentiles"}
              /\ DOMAIN block.percentiles = {5, 25, 50, 75, 95}
        /\ DOMAIN st.revenues = FiveNumbers

\* a returned result whose 5th and 95th total-cost percentiles differ
C12_Witness ==
    \E r \in Returned :
        LET pct == runs[r].results.statistics.total_costs.percentiles
        IN  pct[5].num < pct[95].num

\* x <= y for two quotients with positive denominators
Leq(x, y) == x.num * y.den <= y.num * x.den

\* C13: the total-cost percentile values do not decrease with the rank:
\* p5 <= p25 <= p50 <= p75 <= p95.
C13_PercentilesMonotone ==
    \A r \in Returned :
        LET pct == runs[r].results.statistics.total_costs.percentiles IN
        \A i, j \in DOMAIN PERCENTILES :
            i < j => Leq(pct[PERCENTILES[i]], pct[PERCENTILES[j]])

\* a returned result whose first trial cost more than its second and whose
\* percentiles strictly increase
C13_Witness ==
    \E r \in Returned :
        LET res == runs[r].results
            pct == res.statistics.total_costs.percentiles
        IN  /\ Len(res.total_costs) >= 2
            /\ res.total_costs[1] > res.total_costs[2]
            /\ \A i \in 1..(Len(PERCENTILES) - 1) :
                  /\ Leq(pct[PERCENTILES[i]], pct[PERCENTILES[i + 1]])
                  /\ ~Leq(pct[PERCENTILES[i + 1]], pct[PERCENTILES[i]])

\* an interval is defined when both bounds are numbers or when the entry
\* carries an explicit flag saying that it is undefined
DefinedInterval(interval) ==
    \/ ~interval.lower.nan /\ ~interval.upper.nan
    \/ "undefined" \in DOMAIN interval

\* C14: a run with a single trial returns a result, and each of its
\* confidence intervals is defined: it has numeric bounds (the point value)
\* or an explicit flag that marks it as undefined.
C14_SingleTrialIntervalDefined ==
    \A r \in DOMAIN runs :
        runs[r].simulator.num_simulations = 1 =>
            /\ ~runs[r].raised
            /\ LET ci == runs[r].results.statistics.confidence_intervals IN
               \A block \in DOMAIN ci : DefinedInterval(ci[block])

\* the results handed to the last analysis, and what it returned
Analysed == runs[sensitivity.run].results
Entries  == sensitivity.entries

RECURSIVE GCD(_, _)
GCD(a, b) == IF b = 0 THEN a ELSE GCD(b, a % b)

\* a quotient in lowest terms; inf is 1/0 and nan is 0/0
Reduced(x) ==
    LET g == GCD(x.num, x.den) IN
    IF g = 0 THEN x ELSE Frac(x.num \div g, x.den \div g)

SameValue(x, y) == Reduced(x) = Reduced(y)

\* n * sum(x*y) - sum(x) * sum(y): n^2 times the covariance of two columns
Cov2(x, y) ==
    Len(x) * SumSeq([i \in DOMAIN x |-> x[i] * y[i]]) - SumSeq(x) * SumSeq(y)

\* n^2 times the variance of a column
Var2(x) == Cov2(x, x)

\* the column of the cost table with a given key
Column(results, key) ==
    LET c == CHOOSE c \in DOMAIN results.policy_costs :
                 results.policy_costs[c].key = key
    IN  results.policy_costs[c].values

\* C15: the analysis returns exactly one entry per column of the cost table,
\* and the contribution of an entry is the variance of its column divided by
\* the variance of the total costs of the same results.
C15_ContributionIsVarianceShare ==
    sensitivity.called =>
        /\ Len(Entries) = Len(Analysed.policy_costs)
        /\ \A c \in DOMAIN Analysed.policy_costs :
              Cardinality({e \in DOMAIN Entries :
                  Entries[e].key = Analysed.policy_costs[c].key}) = 1
        /\ \A e \in DOMAIN Entries :
              SameValue(Entries[e].contribution_to_total,
                        Frac(Var2(Column(Analysed, Entries[e].key)),
                             Var2(Analysed.total_costs)))

\* an analysis of totals that vary, with two columns of different, non-zero
\* contributions
C15_Witness ==
    /\ sensitivity.called
    /\ Var2(Analysed.total_costs) > 0
    /\ \E d, e \in DOMAIN Entries :
          /\ Entries[d].contribution_to_total.num > 0
          /\ Entries[e].contribution_to_total.num > 0
          /\ ~SameValue(Entries[d].contribution_to_total,
                        Entries[e].contribution_to_total)

\* where a key stands in the cost table
ColumnIndex(results, key) ==
    CHOOSE c \in DOMAIN results.policy_costs : results.policy_costs[c].key = key

\* n^2 times the variance of the column behind entry e
EntryVar2(e) == Var2(Column(Analysed, Entries[e].key))

\* the contribution of entry e is greater than that of entry d, as floats:
\* with a zero total variance the quotients are inf or nan, and neither is
\* greater than the other
Greater(e, d) == Var2(Analysed.total_costs) > 0 /\ EntryVar2(e) > EntryVar2(d)

\* the contributions of two entries are equal, as floats: inf = inf
Tied(d, e) ==
    IF Var2(Analysed.total_costs) > 0 THEN EntryVar2(d) = EntryVar2(e)
    ELSE EntryVar2(d) > 0 /\ EntryVar2(e) > 0

\* C16: the entries come in descending order of contribution, and entries of
\* equal contribution keep the order of their columns in the cost table.
C16_DescendingAndStable ==
    sensitivity.called =>
        \A d, e \in DOMAIN Entries :
            d < e =>
                /\ ~Greater(e, d)
                /\ Tied(d, e) =>
                      ColumnIndex(Analysed, Entries[d].key)
                          < ColumnIndex(Analysed, Entries[e].key)

\* an analysis that moved a later column in front of an earlier one and that
\* has two entries of the same non-zero contribution
C16_Witness ==
    /\ sensitivity.called
    /\ Var2(Analysed.total_costs) > 0
    /\ \E d, e \in DOMAIN Entries :
          /\ d < e
          /\ ColumnIndex(Analysed, Entries[d].key)
                > ColumnIndex(Analysed, Entries[e].key)
    /\ \E d, e \in DOMAIN Entries :
          d < e /\ Tied(d, e) /\ EntryVar2(d) > 0

\* a float that is the number zero
IsZero(x) == x.num = 0 /\ x.den # 0

\* C17: when the total costs have zero variance, the analysis reports a
\* contribution of zero for every policy or carries an explicit signal that
\* the decomposition is undefined; it does not return the quotient of a
\* division by zero as a contribution.
C17_ZeroVarianceHandled ==
    (sensitivity.called /\ Var2(Analysed.total_costs) = 0) =>
        \/ \A e \in DOMAIN Entries : IsZero(Entries[e].contribution_to_total)
        \/ "undefined" \in DOMAIN sensitivity

\* x + y
Plus(x, y) ==
    IF x.den = y.den THEN Frac(x.num + y.num, x.den)
    ELSE Frac(x.num * y.den + y.num * x.den, x.den * y.den)

RECURSIVE SumContributions(_, _)
SumContributions(entries, k) ==
    IF k = 1 THEN entries[1].contribution_to_total
    ELSE Plus(SumContributions(entries, k - 1), entries[k].contribution_to_total)

\* the contributions of the last analysis added up
ContributionSum == SumContributions(Entries, Len(Entries))

\* x is approximately 1.0: within 10 percent of it
NearOne(x) ==
    /\ x.den > 0
    /\ 100 * (x.num - x.den) <= 10 * x.den
    /\ 100 * (x.den - x.num) <= 10 * x.den

\* n^2 times the sum of the covariances of all pairs of different columns
PairCovariances(results) ==
    LET cols == results.policy_costs IN
    SumSeq([j \in DOMAIN cols |->
        SumSeq([k \in DOMAIN cols |->
            IF j < k THEN Cov2(cols[j].values, cols[k].values) ELSE 0])])

\* C18 as stated: whenever the total costs have a non-zero variance, the
\* contributions sum to approximately 1.0.
C18_ContributionsSumToOne ==
    (sensitivity.called /\ Var2(Analysed.total_costs) > 0) =>
        NearOne(ContributionSum)

\* C18, amended: whenever the total costs have a non-zero variance, the
\* contributions sum to 1 - 2 * (sum of the covariances of all pairs of
\* columns) / variance(total costs); the sum is 1.0 exactly when the sample
\* covariances of the columns cancel.
C18_SumIsOneMinusCovarianceShare ==
    (sensitivity.called /\ Var2(Analysed.total_costs) > 0) =>
        SameValue(ContributionSum,
                  Frac(Var2(Analysed.total_costs) - 2 * PairCovariances(Analysed),
                       Var2(Analysed.total_costs)))

\* an analysis of totals that vary, whose columns have covariances that do
\* not cancel and whose contributions do not sum to about 1.0
C18_Witness ==
    /\ sensitivity.called
    /\ Var2(Analysed.total_costs) > 0
    /\ PairCovariances(Analysed) # 0
    /\ ~NearOne(ContributionSum)

\* every cost policy of the table has a standard deviation of zero
NoSpread == \A c \in DOMAIN POLICY_PARAMETERS : POLICY_PARAMETERS[c].std_dev = 0

SumOfMeans ==
    SumSeq([c \in DOMAIN POLICY_PARAMETERS |-> POLICY_PARAMETERS[c].mean])

\* C19: when every cost policy has a standard deviation of zero, the total
\* cost of every trial is exactly the sum of the policy means, and the
\* exceedance count is 0 or the trial count.
C19_NoSpreadTotalsAreSumOfMeans ==
    NoSpread =>
        \A r \in Returned :
            LET res == runs[r].results IN
            /\ \A i \in DOMAIN res.total_costs : res.total_costs[i] = SumOfMeans
            /\ res.threshold_exceedances \in {0, Len(res.total_costs)}

\* a run of two trials without spread, in which some policy has a non-zero
\* mean and both trials exceed the threshold
C19_Witness ==
    /\ NoSpread
    /\ SumOfMeans > 0
    /\ \E r \in Returned :
          /\ Len(runs[r].results.total_costs) = 2
          /\ runs[r].results.threshold_exceedances = 2

\* C20: with a threshold at or below zero, the least total cost there can
\* be, every trial is counted as an exceedance except the trials whose total
\* cost is equal to the threshold; when there is no such trial the
\* exceedance probability is 1.
C20_LowThresholdCountsAll ==
    \A r \in Returned :
        runs[r].simulator.budget_threshold <= 0 =>
            LET res == runs[r].results
                atThreshold == {i \in DOMAIN res.total_costs :
                    res.total_costs[i] = runs[r].simulator.budget_threshold}
                analysis == res.statistics.threshold_analysis
            IN  /\ res.threshold_exceedances
                      = Len(res.total_costs) - Cardinality(atThreshold)
                /\ analysis.exceedances = res.threshold_exceedances
                /\ atThreshold = {} =>
                      /\ analysis.probability.num = analysis.probability.den
                      /\ analysis.probability.den > 0

\* a run with threshold 0 in which one trial costs exactly 0 and is not
\* counted, and another costs more and is
C20_Witness ==
    \E r \in Returned :
        LET res == runs[r].results IN
        /\ runs[r].simulator.budget_threshold = 0
        /\ \E i, j \in DOMAIN res.total_costs :
              res.total_costs[i] = 0 /\ res.total_costs[j] > 0
        /\ res.threshold_exceedances = Len(res.total_costs) - 1

\* the policies of the cost table, as a set of positions
PolicyColumns == DOMAIN POLICY_PARAMETERS

RECURSIVE SumOver(_, _)
\* the sum of f[c] over the positions in S
SumOver(f, S) ==
    IF S = {} THEN 0
    ELSE LET c == CHOOSE c \in S : TRUE IN f[c] + SumOver(f, S \ {c})

\* C21: the aggregate cost estimate has a total mean equal to the sum of the
\* means of the cost policies, revenue left out, and a combined standard
\* deviation equal to the square root of the sum of their squared standard
\* deviations.
C21_EstimateIsSumAndRootSumSquares ==
    estimate.called =>
        /\ estimate.outcome.mean_total
              = SumOver([c \in PolicyColumns |-> POLICY_PARAMETERS[c].mean],
                        PolicyColumns)
        /\ estimate.outcome.std_dev_total.sqrt_of
              = SumOver([c \in PolicyColumns |->
                            POLICY_PARAMETERS[c].std_dev
                                * POLICY_PARAMETERS[c].std_dev],
                        PolicyColumns)

\* an estimate over a table in which two policies have a spread and the
\* revenue has a non-zero mean
C21_Witness ==
    /\ estimate.called
    /\ Cardinality({c \in PolicyColumns : POLICY_PARAMETERS[c].std_dev # 0}) >= 2
    /\ REVENUE_PARAMETERS[1].mean # 0
    /\ estimate.outcome.mean_total > 0

\* the i-th normal draw of a sample call on param that starts in state g
Draw(param, g, i) ==
    param.mean + param.std_dev * StdNormal((g + i - 1) % RngPeriod)

\* C22: a sample call with a seed seeds the generator before it draws: what
\* it returns is fixed by the parameter, the count and the seed, whatever
\* state earlier draws had left the generator in.
C22_SeededSampleIgnoresHistory ==
    (sampled.called /\ sampled.seed # None /\ ~sampled.raised) =>
        /\ Len(sampled.values) = sampled.size
        /\ \A i \in 1..sampled.size :
              sampled.values[i]
                  = Max(Draw(sampled.param, SeedState(sampled.seed), i), 0)

\* a seeded call for two values that differ, made when the generator was
\* not in the state the seed gives
C22_Witness ==
    /\ sampled.called
    /\ sampled.seed # None
    /\ ~sampled.raised
    /\ sampled.before # SeedState(sampled.seed)
    /\ sampled.size >= 2
    /\ sampled.values[1] # sampled.values[2]

\* the state of the generator when run r gets to its c-th parameter, the
\* revenue counting as the one after the last policy
StateAt(r, c) ==
    (runs[r].before + (c - 1) * runs[r].simulator.num_simulations) % RngPeriod

\* C23: the parameters of a run draw one after the other from the one
\* generator, the policies in the order of the table and the revenue last:
\* what a parameter receives is fixed by the state the run started in and by
\* the number of draws the parameters before it have made.
C23_SequentialDraws ==
    \A r \in Returned :
        LET res == runs[r].results
            n   == runs[r].simulator.num_simulations
        IN  /\ \A c \in DOMAIN POLICY_PARAMETERS :
                  /\ res.policy_costs[c].key = POLICY_PARAMETERS[c].key
                  /\ \A i \in 1..n :
                        res.policy_costs[c].values[i]
                            = Max(Draw(POLICY_PARAMETERS[c], StateAt(r, c), i), 0)
            /\ \A i \in 1..n :
                  res.revenues[i]
                      = Max(Draw(REVENUE_PARAMETERS[1],
                                 StateAt(r, Len(POLICY_PARAMETERS) + 1), i), 0)

\* a run in which the revenue and a policy after the first did not receive
\* what they would have drawn from the state the run started in
C23_Witness ==
    \E r \in Returned :
        LET res == runs[r].results IN
        /\ runs[r].simulator.num_simulations >= 1
        /\ res.revenues[1]
              # Max(Draw(REVENUE_PARAMETERS[1], runs[r].before, 1), 0)
        /\ \E c \in DOMAIN POLICY_PARAMETERS :
              res.policy_costs[c].values[1]
                  # Max(Draw(POLICY_PARAMETERS[c], runs[r].before, 1), 0)

\* C24: a result, once returned, is never changed: no later run, analysis
\* or other step alters the cost table, the vectors, the exceedance count or
\* the statistics of a result that exists.
C24_ResultsNeverChange ==
    [][\A r \in DOMAIN runs :
          /\ r \in DOMAIN runs'
          /\ runs'[r] = runs[r]]_vars

\* two results whose totals are not in ascending order, the first of them
\* analysed after the second was returned
C24_Witness ==
    /\ sensitivity.called
    /\ sensitivity.run = 1
    /\ Len(runs) = 2
    /\ \A r \in DOMAIN runs :
          /\ ~runs[r].raised
          /\ Len(runs[r].results.total_costs) = 2
          /\ runs[r].results.total_costs[1] > runs[r].results.total_costs[2]

\* C25: every simulation that runs has a positive trial count and a
\* threshold that is not negative.
C25_RunsHaveValidConfiguration ==
    \A r \in Returned :
        /\ runs[r].simulator.num_simulations >= 1
        /\ runs[r].simulator.budget_threshold >= 0

\* the state a sample call draws from: the one its seed gives, or the one
\* the generator was in
DrawnFrom ==
    IF sampled.seed # None THEN SeedState(sampled.seed) ELSE sampled.before

\* C26: sample clamps and does nothing else: a draw that is not negative is
\* returned as drawn, a negative draw is returned as 0, each in the position
\* it was drawn in.
C26_ClampOnly ==
    (sampled.called /\ ~sampled.raised) =>
        /\ Len(sampled.values) = sampled.size
        /\ \A i \in 1..sampled.size :
              LET draw == Draw(sampled.param, DrawnFrom, i) IN
              /\ draw >= 0 => sampled.values[i] = draw
              /\ draw < 0 => sampled.values[i] = 0

\* a call that drew a negative value and, after it, a positive one
C26_Witness ==
    /\ sampled.called
    /\ ~sampled.raised
    /\ sampled.size >= 2
    /\ Draw(sampled.param, DrawnFrom, 1) < 0
    /\ Draw(sampled.param, DrawnFrom, 2) > 0
    /\ sampled.values[1] = 0
    /\ sampled.values[2] > 0

\* a step in which run_simulation was called
RunStep == Len(runs') = Len(runs) + 1

\* the run a RunStep has added
NewRun == runs'[Len(runs')]

\* C27: run_simulation leaves the policy and revenue tables and the trial
\* count, threshold and seed of every simulator as they were; of the state
\* that runs share it changes the generator only.
C27_RunLeavesConfigurationAlone ==
    [][RunStep =>
          /\ POLICY_PARAMETERS' = POLICY_PARAMETERS
          /\ REVENUE_PARAMETERS' = REVENUE_PARAMETERS
          /\ simulators' = simulators
          /\ NewRun.simulator \in simulators']_vars

\* a seeded simulator has just run and left the generator in another state
\* than the run found it in
C27_Witness ==
    /\ runs # <<>>
    /\ ~runs[Len(runs)].raised
    /\ runs[Len(runs)].simulator.random_seed # None
    /\ runs[Len(runs)].drawn > 0
    /\ rng = Advance(runs[Len(runs)].before, runs[Len(runs)].drawn)
    /\ rng # runs[Len(runs)].before

\* C28: the seed of a simulator is applied to the generator when the
\* simulator is constructed and at no other time: a run starts from the state
\* the generator is in, whatever the seed of its simulator, and a run that
\* returns has drawn (number of policies + 1) * trial count values from it.
C28_SeedAppliedAtConstructionOnly ==
    [][/\ RunStep =>
             /\ NewRun.before = rng
             /\ ~NewRun.raised =>
                   /\ NewRun.drawn = (Len(POLICY_PARAMETERS) + 1)
                                         * NewRun.simulator.num_simulations
                   /\ rng' = Advance(rng, NewRun.drawn)
       /\ (~RunStep /\ rng' # rng) =>
             \E self \in simulators' :
                 /\ self.random_seed # None
                 /\ rng' = SeedState(self.random_seed)]_vars

\* the second run of a seeded simulator, started where its first run had
\* left the generator and not where the seed puts it
C28_Witness ==
    /\ Len(runs) = 2
    /\ runs[1].simulator = runs[2].simulator
    /\ runs[2].simulator.random_seed # None
    /\ ~runs[1].raised /\ ~runs[2].raised
    /\ runs[1].before = SeedState(runs[1].simulator.random_seed)
    /\ runs[2].before = Advance(runs[1].before, runs[1].drawn)
    /\ runs[2].before # SeedState(runs[2].simulator.random_seed)

\* the statistics of block b lie between its min and its max, and its
\* median is its 50th percentile
Ordered(b) ==
    LET lo == Frac(b.min, 1)
        hi == Frac(b.max, 1)
        between(x) == Leq(lo, x) /\ Leq(x, hi)
    IN  /\ between(b.mean)
        /\ between(b.median)
        /\ \A p \in DOMAIN b.percentiles : between(b.percentiles[p])
        /\ Leq(b.median, b.percentiles[50])
        /\ Leq(b.percentiles[50], b.median)

\* C29: in the statistics of every run of at least one trial, for the total
\* costs and for the net impact, the min is at most the mean, the median and
\* every percentile, each of these is at most the max, and the median is
\* equal to the 50th percentile.
C29_StatisticsOrdered ==
    \A r \in Returned :
        runs[r].simulator.num_simulations >= 1 =>
            /\ Ordered(runs[r].results.statistics.total_costs)
            /\ Ordered(runs[r].results.statistics.net_budget_impact)

\* a run of two trials of different total cost and different net impact,
\* the net impact negative in one of them
C29_Witness ==
    \E r \in Returned :
        LET st == runs[r].results.statistics IN
        /\ Len(runs[r].results.total_costs) = 2
        /\ st.total_costs.min < st.total_costs.max
        /\ st.net_budget_impact.min < 0
        /\ st.net_budget_impact.min < st.net_budget_impact.max
        /\ ~Leq(st.total_costs.median, Frac(st.total_costs.min, 1))

\* the engine run on what the dashboard was given: a simulator of the same
\* trial count and threshold, the same tables, the same generator state
EngineOnCustom ==
    run_simulation(Simulator(custom.num_sims, custom.threshold, None),
                   custom.config.policies, custom.config.revenue,
                   custom.before)

\* C30: run_custom_simulation aggregates as run_simulation does: from the
\* same parameters, trial count, threshold and generator state it draws in
\* the same order and leaves the generator where the engine leaves it; it
\* raises only where the engine raises, the engine raises only where it
\* does or where there are no trials to take statistics of, and wherever the
\* engine returns results it returns the same per-policy table, total costs,
\* revenues, net impact and strict-greater exceedance count.
C30_CustomAggregatesAsEngine ==
    custom.called =>
        LET e == EngineOnCustom IN
        /\ rng = e.rng
        /\ custom.raised => e.raised
        /\ e.raised => custom.raised \/ custom.num_sims = 0
        /\ ~e.raised =>
              /\ ~custom.raised
              /\ custom.results.policy_costs = e.results.policy_costs
              /\ custom.results.total_costs = e.results.total_costs
              /\ custom.results.revenues = e.results.revenues
              /\ custom.results.net_budget_impact = e.results.net_budget_impact
              /\ custom.results.exceedances = e.results.threshold_exceedances

\* a dashboard simulation of two trials of different cost, one of them above
\* the threshold, with a revenue that differs from every policy column
C30_Witness ==
    /\ custom.called
    /\ ~custom.raised
    /\ ~EngineOnCustom.raised
    /\ custom.num_sims = 2
    /\ custom.results.exceedances = 1
    /\ \A i \in DOMAIN custom.results.policy_costs :
          custom.results.policy_costs[i].values # custom.results.revenues

====
